---- MODULE Spec2Model ----
(***************************************************************************)
(* Model of FbAdsLibraryTraversal (src/python/fb_ads_library_api.py): the  *)
(* generator _get_ad_archives_from_url that follows the API's paging       *)
(* cursor, retries API-level errors and filters every page by a delivery   *)
(* date window, and its two entry points generate_ad_archives and          *)
(* generate_ad_archives_from_url.                                          *)
(*                                                                         *)
(* A generator is modelled by its frame (its locals and its position).     *)
(* Python values are modelled by what the code asks of them: a dict is a   *)
(* record whose DOMAIN is its key set ("error" in response_data is         *)
(* "error" \in DOMAIN response_data), a value that is sometimes a str and  *)
(* sometimes a float carries its type, and truthiness is computed from it. *)
(***************************************************************************)
EXTENDS Integers, Sequences, FiniteSets, TLC

\* ------------------------------------------------------------------------
\* Bounds of the model
\* ------------------------------------------------------------------------
MaxFetches == 5        \* fetches of one traversal that the history counts
MaxLen == 2            \* records in one page
MaxRetryLimit == 3     \* retry limits 1..MaxRetryLimit are configured
PairFetches == 2       \* fetches of each of two interleaved traversals

\* ------------------------------------------------------------------------
\* Program constants
\* ------------------------------------------------------------------------
DefaultRetryLimit == 3            \* retry_limit=3
DefaultDateMin == "2022-01-01"    \* ad_delivery_date_min="2022-01-01"
DefaultDateMax == ""              \* ad_delivery_date_max=""
SecondsPerDay == 86400

None == "None"
Trav == {1, 2}                    \* generator objects
URLs == {"A", "B"}                \* cursor URLs the API hands out
DateStrings == {"1969-12-31", "1970-01-01", "2022-01-01"}
MinDates == {"1969-12-31", "2022-01-01"}        \* ad_delivery_date_min
MaxDates == {"", "1970-01-01", "2022-01-01"}    \* ad_delivery_date_max
StartDates == {"1969-12-31", "2022-01-01"}      \* ad_delivery_start_time
SeedURLs == {"A"}                 \* the URL generate_ad_archives formats
UtcOffsets == {0, 28800}          \* local zone of the process: UTC, UTC+8
ErrorPayloads == {[code |-> 1], [code |-> 2]}

\* ------------------------------------------------------------------------
\* Python values
\* ------------------------------------------------------------------------
PyStr(s) == [t |-> "str", s |-> s]
PyFloat(v) == [t |-> "float", v |-> v]
Unbound == [t |-> "unbound"]

\* bool(x): the empty string and 0.0 are falsy
Truthy(x) == IF x.t = "str" THEN x.s # "" ELSE x.v # 0

\* datetime.strptime(s, "%Y-%m-%d"): the calendar day, as days since
\* 1970-01-01
DaysSinceEpoch(s) ==
    CASE s = "1969-12-31" -> -1
      [] s = "1970-01-01" -> 0
      [] s = "2022-01-01" -> 18993

\* datetime.strptime(s, "%Y-%m-%d").timestamp(): local midnight of the day
Timestamp(s, off) == DaysSinceEpoch(s) * SecondsPerDay - off

\* json.dumps(response_data["error"])
JsonDumps(e) == IF e.code = 1 THEN "{\"code\": 1}" ELSE "{\"code\": 2}"

\* ------------------------------------------------------------------------
\* What the API can answer
\* ------------------------------------------------------------------------
SeqsUpTo(S, n) == UNION {[1..k -> S] : k \in 0..n}

AdArchives == {[id |-> "1"]}
              \cup {[id |-> "1", ad_delivery_start_time |-> s] : s \in StartDates}

Pagings == {[cursors |-> "c"]} \cup {[cursors |-> "c", next |-> u] : u \in URLs}

PageBodies == {[data |-> d] : d \in SeqsUpTo(AdArchives, MaxLen)}
              \cup {[data |-> d, paging |-> p] :
                        d \in SeqsUpTo(AdArchives, MaxLen), p \in Pagings}

ErrorBodies == {[error |-> e] : e \in ErrorPayloads}

\* the outcome of requests.get + json.loads for one fetch
FetchResults == {[raises |-> "ConnectionError"], [raises |-> "JSONDecodeError"]}
                \cup {[response_data |-> b] : b \in PageBodies \cup ErrorBodies}

NoResponse == [none |-> TRUE]
NoExc == [type |-> "none"]

VARIABLES
    gen,        \* gen[i]: the frame of generator i
    hist,       \* hist[i]: what generator i has done so far (history)
    utcoffset   \* the local zone's offset, fixed for the process

vars == <<gen, hist, utcoffset>>

\* ------------------------------------------------------------------------
\* The generator _get_ad_archives_from_url, as functions on its frame
\* ------------------------------------------------------------------------
NoGen == [pc |-> "absent"]

\* calling the generator function binds the arguments and runs nothing
GetAdArchivesFromUrl(next_page_url, ad_delivery_date_min, retry_limit, ad_delivery_date_max) ==
    [pc |-> "created",
     next_page_url |-> next_page_url,
     ad_delivery_date_min |-> ad_delivery_date_min,
     retry_limit |-> retry_limit,
     ad_delivery_date_max |-> ad_delivery_date_max,
     last_error_url |-> None,
     last_retry_count |-> 0,
     start_time_cutoff_after |-> Unbound,
     start_time_cutoff_before |-> Unbound,
     response_data |-> NoResponse,
     out |-> << >>,
     exc |-> NoExc]

\* generate_ad_archives: self.url stands for default_url_pattern formatted
\* with the search parameters of self
GenerateAdArchives(self) ==
    IF self.ad_delivery_date_max # ""
    THEN GetAdArchivesFromUrl(self.url, self.ad_delivery_date_min,
                              self.retry_limit, self.ad_delivery_date_max)
    ELSE GetAdArchivesFromUrl(self.url, self.ad_delivery_date_min,
                              self.retry_limit, DefaultDateMax)

\* a slip of GenerateAdArchivesFromUrl: the minimum date is not passed on
GenerateAdArchivesFromUrlDefaultMin(failure_url, ad_delivery_date_min) ==
    GetAdArchivesFromUrl(failure_url, DefaultDateMin,
                         DefaultRetryLimit, DefaultDateMax)

\* generate_ad_archives_from_url
GenerateAdArchivesFromUrl(failure_url, ad_delivery_date_min) ==
    GetAdArchivesFromUrl(failure_url, ad_delivery_date_min,
                         DefaultRetryLimit, DefaultDateMax)

\* an exception leaves the generator
Raise(f, e) == [f EXCEPT !.pc = "failed", !.exc = e]

\* while next_page_url is not None
LoopTest(f) ==
    IF f.next_page_url # None THEN [f EXCEPT !.pc = "loop"]
                              ELSE [f EXCEPT !.pc = "done"]

\* the statements before the loop
Prologue(f, off) ==
    [f EXCEPT
        !.last_error_url = None,
        !.last_retry_count = 0,
        !.start_time_cutoff_after =
            PyFloat(Timestamp(f.ad_delivery_date_min, off)),
        !.start_time_cutoff_before =
            IF f.ad_delivery_date_max # ""
            THEN PyFloat(Timestamp(f.ad_delivery_date_max, off))
            ELSE PyStr("")]

\* a slip of RetryExhausted: > in place of >=
RetryExhaustedLate(f) == f.last_retry_count > f.retry_limit

\* if last_retry_count >= retry_limit
RetryExhausted(f) == f.last_retry_count >= f.retry_limit

\* the exception of the permanent failure
PermanentError(f) ==
    [type |-> "Exception",
     args |-> <<JsonDumps(f.response_data.error), f.next_page_url>>]

\* a slip of TrackNewUrl: the counter of the previous URL is kept
TrackNewUrlKeepsCount(f) ==
    [f EXCEPT !.last_error_url = f.next_page_url]

\* else: last_error_url = next_page_url; last_retry_count = 0
TrackNewUrl(f) ==
    [f EXCEPT !.last_error_url = f.next_page_url, !.last_retry_count = 0]

\* a slip of CountAndContinue: break in place of continue
CountAndBreak(f) ==
    [f EXCEPT !.last_retry_count = @ + 1, !.pc = "done"]

\* a slip of CountAndContinue: the error is not counted
ContinueWithoutCount(f) == LoopTest(f)

\* last_retry_count += 1; continue
CountAndContinue(f) ==
    LoopTest([f EXCEPT !.last_retry_count = @ + 1])

\* the branch if "error" in response_data
OnApiError(f) ==
    IF f.next_page_url = f.last_error_url
    THEN IF RetryExhausted(f)
         THEN Raise(f, PermanentError(f))
         ELSE CountAndContinue(f)
    ELSE CountAndContinue(TrackNewUrl(f))

\* the lambda of the two filter calls; the first is taken when
\* start_time_cutoff_before is truthy
InFilter(f, ad_archive, off) ==
    IF Truthy(f.start_time_cutoff_before)
    THEN /\ "ad_delivery_start_time" \in DOMAIN ad_archive
         /\ f.start_time_cutoff_before.v
                >= Timestamp(ad_archive.ad_delivery_start_time, off)
         /\ Timestamp(ad_archive.ad_delivery_start_time, off)
                >= f.start_time_cutoff_after.v
    ELSE /\ "ad_delivery_start_time" \in DOMAIN ad_archive
         /\ Timestamp(ad_archive.ad_delivery_start_time, off)
                >= f.start_time_cutoff_after.v

\* filtered = list(filter(..., response_data["data"]))
Filtered(f, data, off) ==
    SelectSeq(data, LAMBDA ad_archive : InFilter(f, ad_archive, off))

\* a slip of Yield: the batch is kept and the loop goes on to the next
\* page without waiting for the consumer
YieldWithoutSuspending(f, filtered) ==
    LoopTest([f EXCEPT
        !.out = filtered,
        !.next_page_url =
            IF /\ "paging" \in DOMAIN f.response_data
               /\ "next" \in DOMAIN f.response_data.paging
            THEN f.response_data.paging.next
            ELSE None])

\* a slip of Yield: the page is handed out as received
YieldUnfiltered(f, filtered) ==
    [f EXCEPT !.pc = "suspended", !.out = f.response_data.data]

\* yield filtered: the generator suspends and hands out the batch
Yield(f, filtered) == [f EXCEPT !.pc = "suspended", !.out = filtered]

\* a slip of EndOfWindow: continue in place of break
EmptyPageRefetches(f) == LoopTest(f)

\* if len(filtered) == 0: next_page_url = None; break
EndOfWindow(f) == [f EXCEPT !.next_page_url = None, !.pc = "done"]

\* a slip of OnPage: the empty result is yielded like any other
OnPageYieldsEmpty(f, off) ==
    Yield(f, Filtered(f, f.response_data.data, off))

\* the rest of the loop body for a response without "error"
OnPage(f, off) ==
    IF Len(Filtered(f, f.response_data.data, off)) = 0
    THEN EndOfWindow(f)
    ELSE Yield(f, Filtered(f, f.response_data.data, off))

\* what the frame still holds of the page once the cursor has moved:
\* response_data and filtered are rebound before they are read again
Forget(f) == [f EXCEPT !.response_data = NoResponse, !.out = << >>]

\* a slip of AfterYield: the cursor is not moved to paging.next
AfterYieldSameUrl(f) ==
    IF "paging" \in DOMAIN f.response_data
    THEN LoopTest(Forget(f))
    ELSE LoopTest(Forget([f EXCEPT !.next_page_url = None]))

\* the statements after the yield, then the loop test
AfterYield(f) ==
    IF "paging" \in DOMAIN f.response_data
    THEN IF "next" \in DOMAIN f.response_data.paging
         THEN LoopTest(Forget([f EXCEPT
                  !.next_page_url = f.response_data.paging.next]))
         ELSE Raise(f, [type |-> "KeyError", args |-> <<"next">>])
    ELSE LoopTest(Forget([f EXCEPT !.next_page_url = None]))

\* a slip of LoopBody: a failed requests.get or json.loads is tried again
LoopBodyRetriesFailure(f, r, off) ==
    IF "raises" \in DOMAIN r
    THEN LoopTest(f)
    ELSE IF "error" \in DOMAIN r.response_data
         THEN OnApiError([f EXCEPT !.response_data = r.response_data])
         ELSE OnPage([f EXCEPT !.response_data = r.response_data], off)

\* one iteration of the loop: requests.get, json.loads, then the body
LoopBody(f, r, off) ==
    IF "raises" \in DOMAIN r
    THEN Raise(f, [type |-> r.raises, args |-> << >>])
    ELSE IF "error" \in DOMAIN r.response_data
         THEN OnApiError([f EXCEPT !.response_data = r.response_data])
         ELSE OnPage([f EXCEPT !.response_data = r.response_data], off)

\* next(generator): from the start, or from the yield, to the loop
Resume(f, off) ==
    IF f.pc = "created" THEN LoopTest(Prologue(f, off)) ELSE AfterYield(f)

\* ------------------------------------------------------------------------
\* History of one traversal (not program state)
\* ------------------------------------------------------------------------
NoHist ==
    [nfetch |-> 0,        \* fetches performed
     nerr |-> 0,          \* responses with "error" received
     nyield |-> 0,        \* batches yielded
     errRun |-> 0,        \* "error" responses in a row up to the last fetch
     fetched |-> {},      \* URLs fetched
     revisit |-> FALSE,   \* the cursor has moved to a URL fetched before
     resumedAt |-> 0,     \* restarted traversal: fetches of the run it resumes
     fresh |-> TRUE,      \* ... and that run had seen no API-level error
     nreq |-> 0,          \* elements the consumer has asked for
     npage |-> 0,         \* decoded pages without "error" received
     last |-> "none",     \* how the last fetch ended
     lastUrl |-> None,    \* the URL of the last fetch
     urlRun |-> 0,        \* fetches in a row that went to lastUrl
     sinceResume |-> 0,   \* fetches since the consumer last asked
     expect |-> None,     \* the seed URL, then the next cursor of the page
                          \* of the last yielded batch (None: it has none)
     created |-> NoGen,   \* the frame the generator was created with
     log |-> << >>]       \* the generator's own steps, when recorded

\* the history of a generator just created with frame f
StartHist(f) == [NoHist EXCEPT !.expect = f.next_page_url, !.created = f]

Bump(n) == IF n < MaxFetches THEN n + 1 ELSE n

\* the consumer asks once more than it has been given batches, at most
BumpReq(n) == IF n <= MaxFetches THEN n + 1 ELSE n

ResultKind(r) ==
    IF "raises" \in DOMAIN r THEN r.raises
    ELSE IF "error" \in DOMAIN r.response_data THEN "error" ELSE "page"

\* the next cursor a page carries, None when it carries none
CursorOf(response_data) ==
    IF /\ "paging" \in DOMAIN response_data
       /\ "next" \in DOMAIN response_data.paging
    THEN response_data.paging.next
    ELSE None

IsApiError(r) == "response_data" \in DOMAIN r /\ "error" \in DOMAIN r.response_data
IsPage(r) == "response_data" \in DOMAIN r /\ "data" \in DOMAIN r.response_data

AfterFetch(h, f, g, r) ==
    [h EXCEPT
        !.nfetch = Bump(@),
        !.nerr = IF IsApiError(r) THEN Bump(@) ELSE @,
        !.nyield = IF g.pc = "suspended" THEN Bump(@) ELSE @,
        !.errRun = IF IsApiError(r) THEN Bump(@) ELSE 0,
        !.fetched = @ \cup {f.next_page_url},
        !.npage = IF IsPage(r) THEN Bump(@) ELSE @,
        !.last = ResultKind(r),
        !.lastUrl = f.next_page_url,
        !.urlRun = IF h.lastUrl = f.next_page_url THEN Bump(@) ELSE 1,
        !.sinceResume = Bump(@),
        !.expect = IF g.pc = "suspended" THEN CursorOf(r.response_data) ELSE @]

AfterResume(h, g) ==
    [h EXCEPT !.revisit = @ \/ (g.pc = "loop" /\ g.next_page_url \in h.fetched),
              !.nreq = BumpReq(@),
              !.sinceResume = 0]

\* ------------------------------------------------------------------------
\* Actions
\* ------------------------------------------------------------------------
Configs ==
    [url : SeedURLs,
     ad_delivery_date_min : MinDates,
     ad_delivery_date_max : MaxDates,
     retry_limit : 1..MaxRetryLimit]

\* the consumer asks generator i for its next element
Request(i) ==
    /\ gen[i].pc \in {"created", "suspended"}
    /\ gen' = [gen EXCEPT ![i] = Resume(gen[i], utcoffset)]
    /\ hist' = [hist EXCEPT ![i] = AfterResume(hist[i], gen'[i])]
    /\ UNCHANGED utcoffset

\* a slip of IterateGen: the last-errored URL and the retry counter are
\* kept once for the process, so every generator sees what i wrote
IterateGenSharedTracker(i, r) ==
    /\ gen[i].pc = "loop"
    /\ gen' = [j \in Trav |->
                  IF j = i THEN LoopBody(gen[i], r, utcoffset)
                  ELSE IF gen[j].pc = "absent" THEN gen[j]
                  ELSE [gen[j] EXCEPT
                           !.last_error_url =
                               LoopBody(gen[i], r, utcoffset).last_error_url,
                           !.last_retry_count =
                               LoopBody(gen[i], r, utcoffset).last_retry_count]]
    /\ UNCHANGED utcoffset

\* generator i fetches its cursor URL, the API answers r
IterateGen(i, r) ==
    /\ gen[i].pc = "loop"
    /\ gen' = [gen EXCEPT ![i] = LoopBody(gen[i], r, utcoffset)]
    /\ UNCHANGED utcoffset

Iterate(i, r) ==
    /\ IterateGen(i, r)
    /\ hist' = [hist EXCEPT ![i] = AfterFetch(hist[i], gen[i], gen'[i], r)]

Fetch(i) == \E r \in FetchResults : Iterate(i, r)

\* the history counts at most MaxFetches fetches of a traversal
Capped(i) == hist[i].nfetch < MaxFetches

CappedFetch(i) == Capped(i) /\ Fetch(i)

\* one traversal started by generate_ad_archives
Init ==
    /\ utcoffset \in UtcOffsets
    /\ \E self \in Configs :
          gen = [i \in Trav |-> IF i = 1 THEN GenerateAdArchives(self) ELSE NoGen]
    /\ hist = [i \in Trav |-> IF i = 1 THEN StartHist(gen[1]) ELSE NoHist]

Next ==
    \/ Request(1)
    \/ CappedFetch(1)

Spec == Init /\ [][Next]_vars

\* The same loop with no bound on the fetches.  The consumer keeps asking
\* for the next element (weak fairness of Request) and requests.get returns,
\* so the loop body runs whenever the generator is in the loop (weak
\* fairness of the fetch).  The history keeps the fetched URLs only, the
\* configurations are those of the default window and the pages hold at
\* most one record.
LiveConfigs ==
    {self \in Configs : /\ self.ad_delivery_date_min = DefaultDateMin
                        /\ self.ad_delivery_date_max = DefaultDateMax}

LiveResults ==
    {r \in FetchResults :
        IsPage(r) => Len(r.response_data.data) <= 1}

LiveIterate(i, r) ==
    /\ IterateGen(i, r)
    /\ hist' = [hist EXCEPT ![i].fetched = @ \cup {gen[i].next_page_url}]

LiveFetch(i) == \E r \in LiveResults : LiveIterate(i, r)

LiveInit ==
    /\ utcoffset \in UtcOffsets
    /\ \E self \in LiveConfigs :
          gen = [i \in Trav |-> IF i = 1 THEN GenerateAdArchives(self) ELSE NoGen]
    /\ hist = [i \in Trav |-> IF i = 1 THEN StartHist(gen[1]) ELSE NoHist]

LiveNext ==
    \/ Request(1)
    \/ LiveFetch(1)

LiveSpec ==
    /\ LiveInit
    /\ [][LiveNext]_vars
    /\ WF_vars(Request(1))
    /\ WF_vars(LiveFetch(1))

\* A traversal started by generate_ad_archives (generator 1) and, from some
\* point where it is about to fetch its cursor URL, a second traversal
\* started by generate_ad_archives_from_url on that URL with the same
\* minimum date (generator 2).  From there both are driven together and
\* every fetch gets the same answer for both; once one of them has ended
\* the other goes on alone.  The history of generator 2 continues that of
\* the run it resumes.
Restart ==
    /\ gen[1].pc = "loop"
    /\ gen[2].pc = "absent"
    /\ gen' = [gen EXCEPT ![2] =
                  GenerateAdArchivesFromUrl(gen[1].next_page_url,
                                            gen[1].ad_delivery_date_min)]
    /\ hist' = [hist EXCEPT ![2] =
                   [hist[1] EXCEPT !.resumedAt = hist[1].nfetch,
                                   !.fresh = (hist[1].nerr = 0)]]
    /\ UNCHANGED utcoffset

Alone ==
    /\ gen[2].pc = "absent"
    /\ \/ Request(1)
       \/ (Capped(1) /\ \E r \in LiveResults : Iterate(1, r))

StartRestarted ==
    /\ gen[2].pc = "created"
    /\ Request(2)

BothRequest ==
    /\ gen[1].pc = "suspended"
    /\ gen[2].pc = "suspended"
    /\ gen' = [i \in Trav |-> Resume(gen[i], utcoffset)]
    /\ hist' = [i \in Trav |-> AfterResume(hist[i], gen'[i])]
    /\ UNCHANGED utcoffset

BothFetch ==
    /\ gen[1].pc = "loop"
    /\ gen[2].pc = "loop"
    /\ gen[1].next_page_url = gen[2].next_page_url
    /\ Capped(1)
    /\ Capped(2)
    /\ \E r \in LiveResults :
          /\ gen' = [i \in Trav |-> LoopBody(gen[i], r, utcoffset)]
          /\ hist' = [i \in Trav |-> AfterFetch(hist[i], gen[i], gen'[i], r)]
    /\ UNCHANGED utcoffset

Survivor(i, j) ==
    /\ gen[j].pc \in {"done", "failed"}
    /\ gen[2].pc # "absent"
    /\ \/ Request(i)
       \/ (Capped(i) /\ \E r \in LiveResults : Iterate(i, r))

RestartNext ==
    \/ Alone
    \/ Restart
    \/ StartRestarted
    \/ BothRequest
    \/ BothFetch
    \/ Survivor(1, 2)
    \/ Survivor(2, 1)

RestartSpec == Init /\ [][RestartNext]_vars

\* Two traversals started by generate_ad_archives, each with its own
\* consumer, advanced in any interleaving.  Each fetch gets an answer of its
\* own, so both may meet errors on the same URL.  The history of a
\* generator logs its own steps: the calls of next() and the answers to its
\* fetches.
PairResults ==
    {r \in LiveResults :
        /\ "raises" \in DOMAIN r => r.raises = "ConnectionError"
        /\ IsApiError(r) => r.response_data.error.code = 1
        /\ IsPage(r) =>
              /\ \A k \in DOMAIN r.response_data.data :
                    /\ "ad_delivery_start_time" \in DOMAIN r.response_data.data[k]
                    /\ r.response_data.data[k].ad_delivery_start_time = DefaultDateMin
              /\ "paging" \in DOMAIN r.response_data
                    => "next" \in DOMAIN r.response_data.paging}

NextCall == [call |-> "next"]

PairRequest(i) ==
    /\ gen[i].pc \in {"created", "suspended"}
    /\ gen' = [gen EXCEPT ![i] = Resume(gen[i], utcoffset)]
    /\ hist' = [hist EXCEPT ![i].log = Append(@, NextCall)]
    /\ UNCHANGED utcoffset

PairIterate(i, r) ==
    /\ hist[i].nfetch < PairFetches
    /\ IterateGen(i, r)
    /\ hist' = [hist EXCEPT ![i].log = Append(@, r), ![i].nfetch = @ + 1]

PairFetch(i) == \E r \in PairResults : PairIterate(i, r)

PairInit ==
    /\ utcoffset \in UtcOffsets
    /\ \E c \in [Trav -> LiveConfigs] :
          gen = [i \in Trav |-> GenerateAdArchives(c[i])]
    /\ hist = [i \in Trav |-> StartHist(gen[i])]

PairNext ==
    \/ PairRequest(1)
    \/ PairRequest(2)
    \/ PairFetch(1)
    \/ PairFetch(2)

PairSpec == PairInit /\ [][PairNext]_vars

\* the frame a generator reaches when it runs alone from frame f through
\* the steps of log
RECURSIVE Replay(_, _)
Replay(f, log) ==
    IF log = << >> THEN f
    ELSE LET g == Replay(f, SubSeq(log, 1, Len(log) - 1))
             e == log[Len(log)]
         IN  IF "call" \in DOMAIN e THEN Resume(g, utcoffset)
                                    ELSE LoopBody(g, e, utcoffset)

\* ------------------------------------------------------------------------
\* Vocabulary of the properties
\* ------------------------------------------------------------------------
\* the step is a fetch by generator i
Fetched(i) == hist'[i].nfetch = hist[i].nfetch + 1

\* the step is a fetch answered by a response with "error"
GotApiError(i) == Fetched(i) /\ hist'[i].nerr = hist[i].nerr + 1

\* the step is a fetch answered by a decoded page without "error"
GotPage(i) ==
    /\ Fetched(i)
    /\ hist'[i].nerr = hist[i].nerr
    /\ "data" \in DOMAIN gen'[i].response_data

\* the delivery window of the configuration: lower bound always, upper
\* bound when a maximum date is configured, both inclusive
InDeliveryWindow(f, ad_archive, off) ==
    /\ "ad_delivery_start_time" \in DOMAIN ad_archive
    /\ Timestamp(ad_archive.ad_delivery_start_time, off)
           >= Timestamp(f.ad_delivery_date_min, off)
    /\ f.ad_delivery_date_max # "" =>
           Timestamp(ad_archive.ad_delivery_start_time, off)
               <= Timestamp(f.ad_delivery_date_max, off)

\* ------------------------------------------------------------------------
\* C1: when every fetch of the cursor URL U is answered with an API-level
\* error, the traversal fails on the retry_limit-th error response (U is
\* fetched exactly retry_limit times) and the exception carries the
\* serialized payload and U.
\* ------------------------------------------------------------------------
C1_FailsOnRetryLimitThError ==
    (/\ gen[1].pc = "failed"
     /\ gen[1].exc.type = "Exception"
     /\ hist[1].nerr = hist[1].nfetch)
    => /\ hist[1].nfetch = gen[1].retry_limit
       /\ hist[1].fetched = {gen[1].next_page_url}
       /\ gen[1].exc.args = <<JsonDumps(gen[1].response_data.error),
                              gen[1].next_page_url>>

\* ------------------------------------------------------------------------
\* C2: after k < retry_limit API-level errors in a row on the cursor URL, a
\* page whose filtered result is non-empty raises nothing and the element
\* yielded next is exactly the filtered batch of that page.
\* ------------------------------------------------------------------------
C2_SuccessAfterRetries ==
    [][(/\ gen[1].pc = "loop"
        /\ hist[1].errRun < gen[1].retry_limit
        /\ GotPage(1)
        /\ Filtered(gen[1], gen'[1].response_data.data, utcoffset) # << >>)
       => /\ gen'[1].pc = "suspended"
          /\ gen'[1].exc = NoExc
          /\ hist'[1].nyield = hist[1].nyield + 1
          /\ gen'[1].out =
                 Filtered(gen[1], gen'[1].response_data.data, utcoffset)]_vars

C2_Witness ==
    /\ gen[1].pc = "suspended"
    /\ gen[1].retry_limit = 3
    /\ hist[1].nerr = 2
    /\ hist[1].nfetch = 3
    /\ hist[1].nyield = 1
    /\ Len(gen[1].out) = 2

\* ------------------------------------------------------------------------
\* C3: after a yielded batch the traversal goes on to the page's next cursor
\* when there is one, and ends normally, with no fetch and no error, when
\* the page has no paging entry or a paging entry without a next URL.
\* ------------------------------------------------------------------------
C3_AdvanceOrEnd ==
    [][(gen[1].pc = "suspended" /\ gen'[1] # gen[1])
       => IF /\ "paging" \in DOMAIN gen[1].response_data
             /\ "next" \in DOMAIN gen[1].response_data.paging
          THEN /\ gen'[1].pc = "loop"
               /\ gen'[1].next_page_url = gen[1].response_data.paging.next
          ELSE /\ gen'[1].pc = "done"
               /\ gen'[1].exc = NoExc
               /\ hist'[1].nfetch = hist[1].nfetch]_vars

\* ------------------------------------------------------------------------
\* C4: a decoded page whose filtered result is empty ends the sequence
\* normally: no batch is yielded for it, no error is raised, and nothing is
\* fetched afterwards, whatever its paging entry says.
\* ------------------------------------------------------------------------
C4_EmptyPageEnds ==
    [][/\ (/\ GotPage(1)
           /\ Filtered(gen[1], gen'[1].response_data.data, utcoffset) = << >>)
          => /\ gen'[1].pc = "done"
             /\ gen'[1].exc = NoExc
             /\ hist'[1].nyield = hist[1].nyield
       /\ gen[1].pc = "done"
          => /\ gen'[1].pc = "done"
             /\ hist'[1].nfetch = hist[1].nfetch]_vars

C4_Witness ==
    /\ gen[1].pc = "done"
    /\ "data" \in DOMAIN gen[1].response_data
    /\ Len(gen[1].response_data.data) > 0
    /\ "paging" \in DOMAIN gen[1].response_data
    /\ "next" \in DOMAIN gen[1].response_data.paging
    /\ hist[1].nyield = 1
    /\ hist[1].nfetch = 2

\* ------------------------------------------------------------------------
\* C5: for every API behaviour and a consumer that keeps asking, the
\* traversal eventually ends: terminal cursor, empty filtered page or
\* permanent error.
\* ------------------------------------------------------------------------
Ended(i) == gen[i].pc \in {"done", "failed"}

C5_AlwaysEnds == <>Ended(1)

\* C5 as amended: the traversal eventually ends provided the cursor chain
\* never leads back to a URL that was already fetched.
C5_EndsUnlessCursorRevisits == <>(Ended(1) \/ hist[1].revisit)

C5_Witness ==
    /\ gen[1].pc = "done"
    /\ ~hist[1].revisit
    /\ hist[1].fetched = {"A", "B"}
    /\ gen[1].last_error_url = "B"
    /\ gen[1].last_retry_count = gen[1].retry_limit
    /\ gen[1].retry_limit = 3

\* ------------------------------------------------------------------------
\* C6: every record of every yielded batch lies in the configured window:
\* at or after the lower bound, and at or before the upper bound whenever a
\* maximum date is configured, whatever timestamp that date parses to.
\* ------------------------------------------------------------------------
C6_YieldedInWindow ==
    gen[1].pc = "suspended"
    => \A k \in 1..Len(gen[1].out) :
          /\ "ad_delivery_start_time" \in DOMAIN gen[1].out[k]
          /\ Timestamp(gen[1].out[k].ad_delivery_start_time, utcoffset)
                 >= Timestamp(gen[1].ad_delivery_date_min, utcoffset)
          /\ gen[1].ad_delivery_date_max # "" =>
                 Timestamp(gen[1].out[k].ad_delivery_start_time, utcoffset)
                     <= Timestamp(gen[1].ad_delivery_date_max, utcoffset)

\* ------------------------------------------------------------------------
\* C7: generate_ad_archives_from_url(U, min) produces the same batches and
\* the same final outcome as an in-progress traversal of
\* generate_ad_archives with the same minimum date whose cursor is U, for
\* every configuration of that traversal, given the same API responses.
\* ------------------------------------------------------------------------
SameBatch ==
    (/\ gen[1].pc = "suspended"
     /\ gen[2].pc = "suspended"
     /\ hist[1].nyield = hist[2].nyield)
    => gen[1].out = gen[2].out

SameOutcome ==
    (Ended(1) /\ Ended(2))
    => /\ gen[1].pc = gen[2].pc
       /\ gen[1].exc = gen[2].exc
       /\ hist[1].nyield = hist[2].nyield

C7_RestartEquivalent == SameBatch /\ SameOutcome

\* C7 as amended: the equivalence holds for an in-progress traversal that
\* has the default retry limit, no maximum date, and had received no
\* API-level error when its cursor was U; the two then agree at every step.
InStep ==
    /\ gen[1].pc = gen[2].pc
    /\ gen[1].next_page_url = gen[2].next_page_url
    /\ gen[1].out = gen[2].out
    /\ gen[1].exc = gen[2].exc
    /\ hist[1].nyield = hist[2].nyield

C7_RestartEquivalentToDefaultCleanRun ==
    (/\ gen[2].pc \notin {"absent", "created"}
     /\ gen[1].retry_limit = DefaultRetryLimit
     /\ gen[1].ad_delivery_date_max = DefaultDateMax
     /\ hist[2].fresh)
    => InStep /\ SameBatch /\ SameOutcome

C7_Witness ==
    /\ gen[1].pc = "failed"
    /\ gen[2].pc = "failed"
    /\ gen[1].exc.type = "Exception"
    /\ gen[1].retry_limit = DefaultRetryLimit
    /\ gen[1].ad_delivery_date_max = DefaultDateMax
    /\ gen[1].ad_delivery_date_min = "1969-12-31"
    /\ hist[2].fresh
    /\ hist[2].resumedAt = 1
    /\ hist[2].nyield = 1

\* ------------------------------------------------------------------------
\* C8: an API-level error response that is not the permanently failing one
\* leaves the cursor unchanged, yields nothing, and the next fetch is to the
\* same URL; the cursor only ever changes after a batch has been yielded.
\* ------------------------------------------------------------------------
ErrorKeepsCursor ==
    (GotApiError(1) /\ gen'[1].pc # "failed")
    => /\ gen'[1].next_page_url = gen[1].next_page_url
       /\ gen'[1].pc = "loop"
       /\ hist'[1].nyield = hist[1].nyield
       /\ gen'[1].out = gen[1].out

C8_CursorMovesOnlyAfterYield ==
    [][/\ ErrorKeepsCursor
       /\ gen'[1].next_page_url # gen[1].next_page_url
          => gen[1].pc = "suspended"]_vars

\* C8 as amended: the cursor changes only when the traversal resumes after
\* a yielded batch, or to the terminal marker on a page whose filtered
\* result is empty.
C8_CursorMovesAfterYieldOrEmptyPage ==
    [][/\ ErrorKeepsCursor
       /\ gen'[1].next_page_url # gen[1].next_page_url
          => \/ gen[1].pc = "suspended"
             \/ /\ GotPage(1)
                /\ Filtered(gen[1], gen'[1].response_data.data, utcoffset)
                       = << >>
                /\ gen'[1].next_page_url = None
                /\ gen'[1].pc = "done"]_vars

C8_Witness ==
    /\ gen[1].pc = "loop"
    /\ gen[1].next_page_url = "B"
    /\ hist[1].fetched = {"A", "B"}
    /\ hist[1].errRun = 2
    /\ hist[1].nyield = 1
    /\ gen[1].retry_limit = 2

\* ------------------------------------------------------------------------
\* C9: an API-level error on a URL other than the last-errored one makes
\* that URL the tracked one and leaves the retry counter at exactly 1,
\* whatever the counter was.
\* ------------------------------------------------------------------------
C9_NewUrlStartsAtOne ==
    [][(GotApiError(1) /\ gen[1].next_page_url # gen[1].last_error_url)
       => /\ gen'[1].last_error_url = gen[1].next_page_url
          /\ gen'[1].last_retry_count = 1]_vars

C9_Witness ==
    /\ gen[1].pc = "loop"
    /\ gen[1].last_error_url = "B"
    /\ gen[1].last_retry_count = 1
    /\ hist[1].fetched = {"A", "B"}
    /\ hist[1].nerr = 3
    /\ hist[1].errRun = 1

\* ------------------------------------------------------------------------
\* C10: a yielded batch is exactly the subsequence of the page's records
\* that carry a delivery start date inside the window: input order, with
\* duplicates, nothing in the window dropped, nothing else let through.
\* ------------------------------------------------------------------------
C10_BatchIsWindowSubsequence ==
    gen[1].pc = "suspended"
    => gen[1].out =
          SelectSeq(gen[1].response_data.data,
                    LAMBDA ad_archive :
                        InDeliveryWindow(gen[1], ad_archive, utcoffset))

\* ------------------------------------------------------------------------
\* C11: the traversal is pull-driven with at most one page in flight:
\* nothing is fetched before the consumer asks for the first element, a
\* fetch happens only while an element the consumer asked for is still
\* owed, the decoded pages without error never outnumber the elements asked
\* for, and a consumer that stops asking causes no fetch.
\* ------------------------------------------------------------------------
C11_PullDriven ==
    [][/\ Fetched(1) => /\ hist[1].nreq = hist[1].nyield + 1
                        /\ gen[1].pc = "loop"
       /\ hist'[1].npage <= hist'[1].nreq
       /\ gen'[1].pc = "created" => hist'[1].nfetch = 0
       /\ gen'[1].pc = "suspended" => hist'[1].nreq = hist'[1].nyield]_vars

C11_Witness ==
    /\ gen[1].pc = "suspended"
    /\ hist[1].nreq = 2
    /\ hist[1].npage = 2
    /\ hist[1].nyield = 2
    /\ hist[1].nfetch = 4

\* ------------------------------------------------------------------------
\* C12: the permanent failure on a URL is raised only when the retry_limit
\* fetches just before it were all answered with an API-level error for
\* that URL; errors separated by a successfully processed page do not add
\* up.
\* ------------------------------------------------------------------------
C12_FailureOnlyAfterErrorsInARow ==
    (gen[1].pc = "failed" /\ gen[1].exc.type = "Exception")
    => hist[1].errRun - 1 >= gen[1].retry_limit

\* ------------------------------------------------------------------------
\* C13: a failure of requests.get or of json.loads is never retried: the
\* traversal ends at once with that error, fetches nothing more and yields
\* nothing more, and what was yielded before is untouched.
\* ------------------------------------------------------------------------
TransportOrDecode == {"ConnectionError", "JSONDecodeError"}

C13_FailureIsFatal ==
    [][/\ (Fetched(1) /\ hist'[1].last \in TransportOrDecode)
          => /\ gen'[1].pc = "failed"
             /\ gen'[1].exc = [type |-> hist'[1].last, args |-> << >>]
             /\ hist'[1].nyield = hist[1].nyield
             /\ gen'[1].out = gen[1].out
       /\ gen[1].pc = "failed"
          => /\ gen'[1].pc = "failed"
             /\ hist'[1].nfetch = hist[1].nfetch
             /\ hist'[1].nyield = hist[1].nyield]_vars

C13_Witness ==
    /\ gen[1].pc = "failed"
    /\ gen[1].exc.type = "JSONDecodeError"
    /\ hist[1].nyield = 2
    /\ hist[1].nerr = 1
    /\ hist[1].nfetch = 4

\* ------------------------------------------------------------------------
\* C14: when two traversals are advanced in any interleaving, the cursor,
\* the last-errored URL and the retry counter of each change only by its
\* own steps, and what each yields and how it ends are what it yields and
\* how it ends running alone against the same answers, also when both meet
\* errors on the same URL.
\* ------------------------------------------------------------------------
C14_TraversalsIndependent ==
    [][\A i \in Trav :
          /\ hist'[i].log = hist[i].log => gen'[i] = gen[i]
          /\ gen'[i] = Replay(hist'[i].created, hist'[i].log)]_vars

C14_Witness ==
    /\ gen[1].pc = "failed"
    /\ gen[1].exc.type = "Exception"
    /\ gen[1].retry_limit = 1
    /\ gen[1].last_error_url = "A"
    /\ hist[1].nfetch = 2
    /\ gen[2].pc = "suspended"
    /\ gen[2].retry_limit = 2
    /\ gen[2].last_error_url = "A"
    /\ gen[2].last_retry_count = 1
    /\ gen[2].out # << >>
    /\ hist[2].nfetch = 2

\* ------------------------------------------------------------------------
\* C15: every URL fetched is the seed URL or, verbatim, the next cursor of
\* the page of the last yielded batch, and a URL is fetched again only as
\* the immediate retry of an API-level error on it.
\* ------------------------------------------------------------------------
FetchesExpected ==
    Fetched(1) => hist'[1].lastUrl = hist[1].expect

C15_FollowsCursorChain ==
    [][/\ FetchesExpected
       /\ (Fetched(1) /\ hist'[1].lastUrl = hist[1].lastUrl)
          => hist[1].last = "error"]_vars

\* C15 as amended: a URL is fetched again only as the immediate retry of an
\* API-level error on it, or because the page just yielded names that same
\* URL as its next cursor.
C15_FollowsCursorChainWithRepeats ==
    [][/\ FetchesExpected
       /\ (Fetched(1) /\ hist'[1].lastUrl = hist[1].lastUrl)
          => \/ hist[1].last = "error"
             \/ /\ hist[1].last = "page"
                /\ hist[1].expect = hist[1].lastUrl]_vars

C15_Witness ==
    /\ hist[1].nfetch = 4
    /\ hist[1].nerr = 1
    /\ hist[1].nyield = 3
    /\ hist[1].fetched = {"A", "B"}
    /\ hist[1].lastUrl = "B"
    /\ hist[1].urlRun = 2
    /\ hist[1].expect = "A"

\* ------------------------------------------------------------------------
\* C16: the retry counter stays within 0..retry_limit, it is 0 exactly
\* while no API-level error has occurred, and no URL is fetched more than
\* retry_limit + 1 times in a row.
\* ------------------------------------------------------------------------
CounterInRange ==
    gen[1].pc # "absent"
    => /\ 0 <= gen[1].last_retry_count
       /\ gen[1].last_retry_count <= gen[1].retry_limit
       /\ gen[1].last_retry_count = 0 <=> hist[1].nerr = 0

C16_CounterAndRunBounded ==
    /\ CounterInRange
    /\ hist[1].urlRun <= gen[1].retry_limit + 1

\* C16 as amended: no URL is fetched more than retry_limit + 1 times in a
\* row within one request of the consumer, that is, without a yielded
\* batch in between.
C16_CounterAndRetriesBounded ==
    /\ CounterInRange
    /\ hist[1].sinceResume <= gen[1].retry_limit + 1

C16_Witness ==
    /\ gen[1].pc = "failed"
    /\ gen[1].exc.type = "Exception"
    /\ gen[1].retry_limit = 2
    /\ gen[1].last_retry_count = 2
    /\ hist[1].sinceResume = 3
    /\ hist[1].nyield = 1

\* ------------------------------------------------------------------------
\* C17: every yielded batch is non-empty, and a traversal that ended
\* cleanly has performed as many fetches as it yielded batches and received
\* API-level errors, plus one if it ended on an empty filtered page.
\* ------------------------------------------------------------------------
EndedOnEmptyPage(i) ==
    /\ "data" \in DOMAIN gen[i].response_data
    /\ Filtered(gen[i], gen[i].response_data.data, utcoffset) = << >>

C17_FetchesAccounted ==
    /\ gen[1].pc = "suspended" => Len(gen[1].out) > 0
    /\ gen[1].pc = "done"
       => hist[1].nfetch = hist[1].nyield + hist[1].nerr
                           + (IF EndedOnEmptyPage(1) THEN 1 ELSE 0)

C17_Witness ==
    /\ gen[1].pc = "done"
    /\ EndedOnEmptyPage(1)
    /\ hist[1].nyield = 2
    /\ hist[1].nerr = 1
    /\ hist[1].nfetch = 4

====
